---- MODULE Spec2Model ----
(***************************************************************************)
(* A model of the film-cli stream resolver (package main, Go) and of the   *)
(* reverse-engineered decryptString helper (JavaScript).                   *)
(*                                                                         *)
(* Six parts of the program are modelled, each with its own                *)
(* specification over the shared variables:                                *)
(*   SpecBuild        ResolveOptions.buildEmbedURL                         *)
(*   SpecDeobfuscate  Deobfuscate (reverse, stride 2, base64)              *)
(*   SpecDecrypt      decryptString (reverse, hex pairs, repeating XOR)    *)
(*   SpecStreams      ResolveOptions.ResolveStreams from the point where   *)
(*                    ResolveVariants has returned: the master playlist    *)
(*                    fetch and the line-by-line playlist scan             *)
(*   SpecPipeline     one whole resolution: ResolveVariants, fetchContent, *)
(*                    the extractors, decodeStreamURL, the manifest fetch  *)
(*                    and the playlist scan                                *)
(*   SpecConcurrent   decodeStreamURL in several callers at once           *)
(*                                                                         *)
(* Text is modelled in two ways.  URLs built by fmt.Sprintf are TLA+       *)
(* strings.  Text that the program takes apart is a sequence of symbols:   *)
(* a number is a byte / rune / UTF-16 code unit, and in the playlist part  *)
(* a symbol is either a separator character the code looks at ("," "="     *)
(* "\"" " " ":" "/" ...) or an indivisible word that contains none of      *)
(* them ("BANDWIDTH", "720x480", "index.m3u8").                            *)
(***************************************************************************)
EXTENDS Integers, Sequences, FiniteSets, TLC

VARIABLES
    pc,              \* position of the operation under study
    err,             \* the error the operation returned ("nil" when none)
    o,               \* ResolveOptions receiver of buildEmbedURL
    embedURL,        \* string returned by buildEmbedURL
    plain,           \* plaintext the obfuscated input was built from
    filler,          \* filler characters the obfuscator interleaved
    obfCode,         \* argument of Deobfuscate
    decodedURL,      \* string returned by Deobfuscate
    encryptedInput,  \* first argument of decryptString
    key,             \* second argument of decryptString
    result,          \* string returned by decryptString
    masterURL,       \* value returned by ResolveVariants
    resp,            \* outcome of client.Get(masterURL)
    lines,           \* strings.Split(body, "\n")
    i,               \* index of the range loop over lines (1-based)
    variants,        \* the local slice `variants`
    ret,             \* the slice ResolveStreams returned
    embedHTML,       \* the entry page fetched by ResolveVariants
    rcpURL,          \* iframe src extracted from the entry page
    rcpHTML,         \* the RCP page
    proRCPURL,       \* /prorcp/ path extracted from the RCP page
    proRCPHTML,      \* the ProRCP page
    jsContent,       \* body of the script the ProRCP page references
    scriptFile,      \* the file scripts/prorcp.js
    divContent,      \* trimmed text of the hidden div
    requests,        \* every HTTP request sent so far, in order
    inflight,        \* the requests sent and not yet answered
    errURL,          \* the URL the returned error names
    stages,          \* the pipeline stages started so far, in order
    res              \* the resolutions running concurrently, by caller

vars == <<pc, err, o, embedURL, plain, filler, obfCode, decodedURL,
          encryptedInput, key, result, masterURL, resp, lines, i, variants, ret,
          embedHTML, rcpURL, rcpHTML, proRCPURL, proRCPHTML, jsContent, scriptFile,
          divContent, requests, inflight, errURL, stages, res>>

buildVars == <<o, embedURL>>
deobVars == <<filler, obfCode, decodedURL>>
decryptVars == <<encryptedInput, key, result>>
streamVars == <<masterURL, resp, lines, i, variants, ret>>
pageVars == <<embedHTML, rcpURL, rcpHTML, proRCPURL, proRCPHTML, divContent>>
scriptVars == <<jsContent, scriptFile>>
netVars == <<requests, inflight, errURL>>
pipeVars == <<pageVars, scriptVars, netVars, stages>>
concVars == <<res>>

(***************************************************************************)
(* Bounds of the model.                                                    *)
(***************************************************************************)
MaxSeason == 11
MaxPlain == 3
MaxKey == 2
MaxToken == 3
MaxLines == 4
MaxCallers == 2

(***************************************************************************)
(* Sequence helpers.                                                       *)
(***************************************************************************)
Reverse(s) == [k \in 1..Len(s) |-> s[Len(s) + 1 - k]]

RECURSIVE SeqsUpTo(_, _)
SeqsUpTo(S, n) ==
    IF n = 0 THEN {<<>>}
    ELSE LET shorter == SeqsUpTo(S, n - 1)
         IN  shorter \cup {Append(s, x) : s \in {t \in shorter : Len(t) = n - 1}, x \in S}

SeqsOfLen(S, n) == {s \in SeqsUpTo(S, n) : Len(s) = n}

(***************************************************************************)
(* buildEmbedURL                                                           *)
(***************************************************************************)
Movie == "movie"
TV == "tv"

vidsrcBase == "https://vidsrc-embed.ru"

ErrNil == "nil"
ErrEmptyID == "imdbId is empty"
ErrSeasonEpisode == "season and episode must be set"
ErrUnsupportedType == "unsupported media type"

\* errors the design calls InvalidRequest
InvalidRequest == {ErrEmptyID, ErrSeasonEpisode}

DigitChars == <<"0", "1", "2", "3", "4", "5", "6", "7", "8", "9">>

\* fmt's %d for a non-negative int
RECURSIVE FormatNat(_)
FormatNat(n) ==
    IF n < 10 THEN DigitChars[n + 1]
    ELSE FormatNat(n \div 10) \o DigitChars[(n % 10) + 1]

\* fmt's %d
FormatInt(n) == IF n < 0 THEN "-" \o FormatNat(0 - n) ELSE FormatNat(n)

MovieURL(id) == vidsrcBase \o "/embed/movie?imdb=" \o id

MovieURLWithEpisode(opts) ==
    vidsrcBase \o "/embed/movie?imdb=" \o opts.IMDBID
        \o "&season=" \o FormatInt(opts.Season)

TVURLSwapped(opts) ==
    vidsrcBase \o "/embed/tv?imdb=" \o opts.IMDBID
        \o "&season=" \o FormatInt(opts.Episode)
        \o "&episode=" \o FormatInt(opts.Season)

TVURL(opts) ==
    vidsrcBase \o "/embed/tv?imdb=" \o opts.IMDBID
        \o "&season=" \o FormatInt(opts.Season)
        \o "&episode=" \o FormatInt(opts.Episode)

\* buildEmbedURL with the movie URL carrying a season and the series URL its
\* two numbers exchanged
buildEmbedURLSwapped(opts) ==
    CASE opts.Type = Movie ->
            IF opts.IMDBID = "" THEN [url |-> "", err |-> ErrEmptyID]
            ELSE [url |-> MovieURLWithEpisode(opts), err |-> ErrNil]
      [] opts.Type = TV ->
            IF opts.IMDBID = "" THEN [url |-> "", err |-> ErrEmptyID]
            ELSE IF opts.Season = 0 \/ opts.Episode = 0
                 THEN [url |-> "", err |-> ErrSeasonEpisode]
                 ELSE [url |-> TVURLSwapped(opts), err |-> ErrNil]
      [] OTHER -> [url |-> "", err |-> ErrUnsupportedType]

buildEmbedURL(opts) ==
    CASE opts.Type = Movie ->
            IF opts.IMDBID = "" THEN [url |-> "", err |-> ErrEmptyID]
            ELSE [url |-> MovieURL(opts.IMDBID), err |-> ErrNil]
      [] opts.Type = TV ->
            IF opts.IMDBID = "" THEN [url |-> "", err |-> ErrEmptyID]
            ELSE IF opts.Season = 0 \/ opts.Episode = 0
                 THEN [url |-> "", err |-> ErrSeasonEpisode]
                 ELSE [url |-> TVURL(opts), err |-> ErrNil]
      [] OTHER -> [url |-> "", err |-> ErrUnsupportedType]

IMDBIDs == {"", "tt0137523", "tt1300854", "t t&1=%/?"}
MediaTypes == {Movie, TV, "anime"}

ResolveOptionsSet ==
    [IMDBID : IMDBIDs, Type : MediaTypes,
     Season : -1..MaxSeason, Episode : -1..MaxSeason]

NoOptions == [IMDBID |-> "", Type |-> "", Season |-> 0, Episode |-> 0]

BuildIdle == o = NoOptions /\ embedURL = ""
DeobIdle == filler = <<>> /\ obfCode = <<>> /\ decodedURL = <<>>
DecryptIdle == encryptedInput = <<>> /\ key = <<>> /\ result = <<>>
StreamIdle ==
    /\ masterURL = <<>>
    /\ resp = "none"
    /\ lines = <<>>
    /\ i = 0
    /\ variants = <<>>
    /\ ret = <<>>

PipeIdle ==
    /\ embedHTML = [iframe |-> FALSE, src |-> <<>>]
    /\ rcpURL = <<>>
    /\ rcpHTML = [prorcp |-> <<>>]
    /\ proRCPURL = <<>>
    /\ proRCPHTML = [scripts |-> <<>>, divs |-> <<>>]
    /\ jsContent = <<>>
    /\ scriptFile = [exists |-> FALSE, content |-> <<>>]
    /\ divContent = <<>>
    /\ requests = <<>>
    /\ inflight = <<>>
    /\ errURL = <<>>
    /\ stages = <<>>
ConcIdle == res = <<>>

InitBuild ==
    /\ pc = "build"
    /\ err = ErrNil
    /\ o \in ResolveOptionsSet
    /\ embedURL = ""
    /\ plain = <<>>
    /\ DeobIdle /\ DecryptIdle /\ StreamIdle /\ PipeIdle /\ ConcIdle

BuildEmbedURL ==
    /\ pc = "build"
    /\ LET r == buildEmbedURL(o)
       IN  /\ embedURL' = r.url
           /\ err' = r.err
    /\ pc' = "built"
    /\ UNCHANGED <<o, plain, deobVars, decryptVars, streamVars, pipeVars, concVars>>

NextBuild == BuildEmbedURL

SpecBuild == InitBuild /\ [][NextBuild]_vars

\* what "%d" prints for 1..13, written out
Decimal == <<"1", "2", "3", "4", "5", "6", "7", "8", "9", "10", "11", "12", "13">>

\* C1: for a movie with a non-empty id buildEmbedURL returns exactly
\* {base}/embed/movie?imdb={id}, and for a series with a non-empty id,
\* season n >= 1 and episode m >= 1 exactly
\* {base}/embed/tv?imdb={id}&season={n}&episode={m}, with no error; the id is
\* copied unmodified and no other field of the request changes the result.
C1_EmbedURLShape ==
    pc = "built" =>
        /\ (o.Type = Movie /\ o.IMDBID # "") =>
              /\ err = ErrNil
              /\ embedURL = "https://vidsrc-embed.ru/embed/movie?imdb=" \o o.IMDBID
        /\ (o.Type = TV /\ o.IMDBID # "" /\ o.Season >= 1 /\ o.Episode >= 1) =>
              /\ err = ErrNil
              /\ embedURL = "https://vidsrc-embed.ru/embed/tv?imdb=" \o o.IMDBID
                               \o "&season=" \o Decimal[o.Season]
                               \o "&episode=" \o Decimal[o.Episode]

\* a series request with a two-digit season and a different episode, and a
\* movie request that carries a season, have both been built
C1_Witness ==
    /\ pc = "built"
    /\ err = ErrNil
    /\ \/ o.Type = TV /\ o.Season >= 10 /\ o.Episode = 2
       \/ o.Type = Movie /\ o.Season = 3

\* C2: a series request yields a URL only when season and episode are both
\* positive; when either is zero or not positive it yields an InvalidRequest
\* error and no URL.
C2_SeriesNeedsPositive ==
    (pc = "built" /\ o.Type = TV) =>
        IF o.IMDBID # "" /\ o.Season >= 1 /\ o.Episode >= 1
        THEN err = ErrNil /\ embedURL # ""
        ELSE err \in InvalidRequest /\ embedURL = ""

(***************************************************************************)
(* Deobfuscate                                                             *)
(***************************************************************************)
ErrBase64 == "decoding Base64"

\* code points of the characters base64 looks at
PadChar == 61
NewlineChar == 10
ReturnChar == 13

\* encoding/base64 StdEncoding: the value of an alphabet character, or -1
DecVal(c) ==
    IF c >= 65 /\ c <= 90 THEN c - 65
    ELSE IF c >= 97 /\ c <= 122 THEN c - 71
    ELSE IF c >= 48 /\ c <= 57 THEN c + 4
    ELSE IF c = 43 THEN 62
    ELSE IF c = 47 THEN 63
    ELSE -1

\* the bytes of one quantum of four alphabet characters, the last `pad` of
\* which are padding
QuantumBytes(q, pad) ==
    LET a == DecVal(q[1])
        b == DecVal(q[2])
        c == IF pad >= 2 THEN 0 ELSE DecVal(q[3])
        d == IF pad >= 1 THEN 0 ELSE DecVal(q[4])
        b1 == a * 4 + b \div 16
        b2 == (b % 16) * 16 + c \div 4
        b3 == (c % 4) * 64 + d
    IN  SubSeq(<<b1, b2, b3>>, 1, 3 - pad)

\* padding characters ending a last quantum, or -1 when the quantum is malformed
QuantumPad(q, last) ==
    IF DecVal(q[1]) < 0 \/ DecVal(q[2]) < 0 THEN -1
    ELSE IF DecVal(q[3]) >= 0
         THEN IF DecVal(q[4]) >= 0 THEN 0
              ELSE IF last /\ q[4] = PadChar THEN 1 ELSE -1
         ELSE IF last /\ q[3] = PadChar /\ q[4] = PadChar THEN 2 ELSE -1

RECURSIVE DecodeQuanta(_)
DecodeQuanta(t) ==
    IF Len(t) = 0 THEN [bytes |-> <<>>, err |-> ErrNil]
    ELSE LET q == SubSeq(t, 1, 4)
             pad == QuantumPad(q, Len(t) = 4)
         IN  IF pad < 0 THEN [bytes |-> <<>>, err |-> ErrBase64]
             ELSE LET rest == DecodeQuanta(SubSeq(t, 5, Len(t)))
                  IN  IF rest.err # ErrNil THEN rest
                      ELSE [bytes |-> QuantumBytes(q, pad) \o rest.bytes,
                            err |-> ErrNil]

\* base64.StdEncoding.DecodeString: \r and \n are skipped, the rest is read in
\* quanta of four characters, padding is required and only ends the input
B64Decode(s) ==
    LET t == SelectSeq(s, LAMBDA c : c # NewlineChar /\ c # ReturnChar)
    IN  IF Len(t) % 4 # 0 THEN [bytes |-> <<>>, err |-> ErrBase64]
        ELSE DecodeQuanta(t)

\* the stride loop started at index 1 instead of index 0
EveryOtherFromSecond(runes) ==
    [k \in 1..(Len(runes) \div 2) |-> runes[2 * k]]

\* for i := 0; i < n; i += 2 { filtered = append(filtered, runes[i]) }
EveryOther(runes) ==
    [k \in 1..((Len(runes) + 1) \div 2) |-> runes[2 * k - 1]]

Deobfuscate(code) ==
    LET reversed == Reverse(code)
        filtered == EveryOther(reversed)
        dec == B64Decode(filtered)
    IN  IF dec.err # ErrNil THEN [s |-> <<>>, err |-> ErrBase64]
        ELSE [s |-> dec.bytes, err |-> ErrNil]

\* The obfuscator of the hosting site, as the design describes it: base64,
\* filler at every odd position, reversal.
EncChar(v) ==
    IF v < 26 THEN v + 65
    ELSE IF v < 52 THEN v + 71
    ELSE IF v < 62 THEN v - 4
    ELSE IF v = 62 THEN 43 ELSE 47

RECURSIVE B64Encode(_)
B64Encode(p) ==
    IF Len(p) = 0 THEN <<>>
    ELSE IF Len(p) = 1
         THEN <<EncChar(p[1] \div 4), EncChar((p[1] % 4) * 16), PadChar, PadChar>>
    ELSE IF Len(p) = 2
         THEN <<EncChar(p[1] \div 4),
                EncChar((p[1] % 4) * 16 + p[2] \div 16),
                EncChar((p[2] % 16) * 4), PadChar>>
    ELSE <<EncChar(p[1] \div 4),
           EncChar((p[1] % 4) * 16 + p[2] \div 16),
           EncChar((p[2] % 16) * 4 + p[3] \div 64),
           EncChar(p[3] % 64)>> \o B64Encode(SubSeq(p, 4, Len(p)))

Interleave(b, f) ==
    [k \in 1..(Len(b) + Len(f)) |->
        IF k % 2 = 1 THEN b[(k + 1) \div 2] ELSE f[k \div 2]]

Obfuscate(p, f) == Reverse(Interleave(B64Encode(p), f))

PlainBytes == {0, 104, 255}
FillerRunes == {61, 233}
Plaintexts == SeqsUpTo(PlainBytes, MaxPlain)

\* one filler after every base64 character, the last one optional
FillersFor(p) ==
    LET n == Len(B64Encode(p))
    IN  IF n = 0 THEN {<<>>}
        ELSE SeqsOfLen(FillerRunes, n) \cup SeqsOfLen(FillerRunes, n - 1)

\* tokens no obfuscator produced
MalformedCodes == {<<65>>, <<61, 233, 61, 233>>, <<65, 65, 65, 65, 33, 65, 65>>}

InitDeobfuscate ==
    /\ pc = "deobfuscate"
    /\ err = ErrNil
    /\ \/ /\ plain \in Plaintexts
          /\ filler \in FillersFor(plain)
          /\ obfCode = Obfuscate(plain, filler)
       \/ /\ plain = <<>>
          /\ filler = <<>>
          /\ obfCode \in MalformedCodes
    /\ decodedURL = <<>>
    /\ BuildIdle /\ DecryptIdle /\ StreamIdle /\ PipeIdle /\ ConcIdle

DoDeobfuscate ==
    /\ pc = "deobfuscate"
    /\ LET r == Deobfuscate(obfCode)
       IN  /\ decodedURL' = r.s
           /\ err' = r.err
    /\ pc' = "deobfuscated"
    /\ UNCHANGED <<plain, filler, obfCode, buildVars, decryptVars, streamVars, pipeVars, concVars>>

NextDeobfuscate == DoDeobfuscate

SpecDeobfuscate == InitDeobfuscate /\ [][NextDeobfuscate]_vars

\* C3: Variant A round trip: for every plaintext p and every choice of filler,
\* Deobfuscate(reverse(interleave(base64(p), filler))) returns exactly p and
\* no error.
C3_RoundTripA ==
    (pc = "deobfuscated" /\ obfCode = Obfuscate(plain, filler)) =>
        decodedURL = plain /\ err = ErrNil

\* a three-byte and a one-byte (padded) plaintext have been recovered from a
\* token whose filler holds the padding character
C3_Witness ==
    /\ pc = "deobfuscated"
    /\ obfCode = Obfuscate(plain, filler)
    /\ Len(plain) \in {1, 3}
    /\ \E k \in 1..Len(filler) : filler[k] = PadChar
    /\ decodedURL = plain

(***************************************************************************)
(* decryptString (JavaScript).  A string is a sequence of UTF-16 code      *)
(* units.                                                                  *)
(***************************************************************************)
\* the design's DecodeFailed{variant: B}; decryptString has no failure path
ErrDecodeFailedB == "DecodeFailed B"

\* characters the regular expression's `.` does not match
LineTerminators == {10, 13, 8232, 8233}

\* characters parseInt skips before the number (line terminators never reach it)
WhiteSpace == {9, 11, 12, 32, 160, 65279}

\* encryptedInput.match(/.{1,2}/g) || []: greedy runs of one or two characters
\* that are not line terminators
RECURSIVE MatchPairs(_)
MatchPairs(s) ==
    IF Len(s) = 0 THEN <<>>
    ELSE IF s[1] \in LineTerminators THEN MatchPairs(Tail(s))
    ELSE IF Len(s) >= 2 /\ s[2] \notin LineTerminators
         THEN <<SubSeq(s, 1, 2)>> \o MatchPairs(SubSeq(s, 3, Len(s)))
         ELSE <<SubSeq(s, 1, 1)>> \o MatchPairs(Tail(s))

\* the value of a base-16 digit, or -1
HexVal(c) ==
    IF c >= 48 /\ c <= 57 THEN c - 48
    ELSE IF c >= 97 /\ c <= 102 THEN c - 87
    ELSE IF c >= 65 /\ c <= 70 THEN c - 55
    ELSE -1

RECURSIVE SkipWhiteSpace(_)
SkipWhiteSpace(s) ==
    IF Len(s) > 0 /\ s[1] \in WhiteSpace THEN SkipWhiteSpace(Tail(s)) ELSE s

\* the longest prefix of base-16 digits: how many, and their value
RECURSIVE HexPrefix(_, _, _)
HexPrefix(s, n, acc) ==
    IF Len(s) > 0 /\ HexVal(s[1]) >= 0
    THEN HexPrefix(Tail(s), n + 1, acc * 16 + HexVal(s[1]))
    ELSE [n |-> n, val |-> acc]

\* parseInt(pair, 16): white space, a sign, an optional 0x, then digits; NaN
\* when no digit follows
ParseInt16(pair) ==
    LET t == SkipWhiteSpace(pair)
        neg == Len(t) > 0 /\ t[1] = 45
        u == IF Len(t) > 0 /\ t[1] \in {43, 45} THEN Tail(t) ELSE t
        v == IF Len(u) >= 2 /\ u[1] = 48 /\ u[2] \in {88, 120}
             THEN SubSeq(u, 3, Len(u)) ELSE u
        d == HexPrefix(v, 0, 0)
    IN  IF d.n = 0 THEN [nan |-> TRUE, val |-> 0]
        ELSE [nan |-> FALSE, val |-> IF neg THEN 0 - d.val ELSE d.val]

\* String.fromCharCode: ToUint16, NaN becoming 0
FromCharCode(x) == IF x.nan THEN 0 ELSE x.val % 65536

RECURSIVE BitXor(_, _)
BitXor(a, b) ==
    IF a = 0 THEN b
    ELSE IF b = 0 THEN a
    ELSE (((a % 2) + (b % 2)) % 2) + 2 * BitXor(a \div 2, b \div 2)

\* the key always read at index 0
KeyCharAtZero(k, idx) ==
    IF Len(k) = 0 THEN [nan |-> TRUE, val |-> 0]
    ELSE [nan |-> FALSE, val |-> k[1]]

\* key.charCodeAt(i % key.length), idx counted from 0: with an empty key the
\* index is NaN, read as 0, and charCodeAt answers NaN
KeyCharAt(k, idx) ==
    IF Len(k) = 0 THEN [nan |-> TRUE, val |-> 0]
    ELSE [nan |-> FALSE, val |-> k[(idx % Len(k)) + 1]]

\* charCode ^ keyChar, NaN taken as 0
XorChar(charCode, keyChar) ==
    BitXor(charCode, IF keyChar.nan THEN 0 ELSE keyChar.val)

decryptString(input, k) ==
    LET reversedInput == Reverse(input)
        hexPairs == MatchPairs(reversedInput)
        hexDecodedString ==
            [n \in 1..Len(hexPairs) |-> FromCharCode(ParseInt16(hexPairs[n]))]
    IN  [n \in 1..Len(hexDecodedString) |->
            XorChar(hexDecodedString[n], KeyCharAt(k, n - 1))]

\* The encoder of Variant B, as the design describes it: XOR with the
\* repeating key, two base-16 characters a byte, reversal.
HexDigit(v) == IF v < 10 THEN v + 48 ELSE v + 87

RECURSIVE HexEncode(_)
HexEncode(bytes) ==
    IF Len(bytes) = 0 THEN <<>>
    ELSE <<HexDigit(bytes[1] \div 16), HexDigit(bytes[1] % 16)>>
            \o HexEncode(Tail(bytes))

XorKey(p, k) == [n \in 1..Len(p) |-> BitXor(p[n], k[((n - 1) % Len(k)) + 1])]

EncryptB(p, k) == Reverse(HexEncode(XorKey(p, k)))

KeyBytes == {107, 255}
Keys == SeqsUpTo(KeyBytes, MaxKey)
TokenChars == {49, 102, 103}
Tokens == SeqsUpTo(TokenChars, MaxToken)

InitDecrypt ==
    /\ pc = "decrypt"
    /\ err = ErrNil
    /\ key \in Keys
    /\ \/ /\ plain \in Plaintexts
          /\ key # <<>>
          /\ encryptedInput = EncryptB(plain, key)
       \/ /\ plain = <<>>
          /\ encryptedInput \in Tokens
    /\ result = <<>>
    /\ filler = <<>> /\ obfCode = <<>> /\ decodedURL = <<>>
    /\ BuildIdle /\ StreamIdle /\ PipeIdle /\ ConcIdle

DecryptString ==
    /\ pc = "decrypt"
    /\ result' = decryptString(encryptedInput, key)
    /\ pc' = "decrypted"
    /\ UNCHANGED <<err, plain, encryptedInput, key, buildVars, deobVars, streamVars, pipeVars, concVars>>

NextDecrypt == DecryptString

SpecDecrypt == InitDecrypt /\ [][NextDecrypt]_vars

\* C4: Variant B round trip: for every plaintext byte sequence p and every
\* non-empty key k, decryptString(reverse(hex(p XOR repeat(k))), k) returns
\* exactly p.
C4_RoundTripB ==
    (pc = "decrypted" /\ key # <<>> /\ encryptedInput = EncryptB(plain, key)) =>
        result = plain

\* a plaintext longer than its two-character key, whose characters differ,
\* has been recovered
C4_Witness ==
    /\ pc = "decrypted"
    /\ Len(key) = 2 /\ key[1] # key[2]
    /\ Len(plain) = 3
    /\ encryptedInput = EncryptB(plain, key)
    /\ result = plain

\* C5: Variant B fails with DecodeFailed and returns no plaintext for every
\* token of odd length and for every call with an empty key.
C5_OddOrEmptyKeyFails ==
    (pc = "decrypted" /\ (Len(encryptedInput) % 2 = 1 \/ key = <<>>)) =>
        err = ErrDecodeFailedB /\ result = <<>>

(***************************************************************************)
(* ResolveStreams: the master playlist fetch and the playlist scan.  A     *)
(* string is a sequence of symbols: the separator characters the code and  *)
(* net/url look at, and indivisible words that contain none of them.       *)
(***************************************************************************)
ErrResolveVariants == "ResolveVariants failed"
ErrFetchMaster == "fetching master playlist"
ErrStatus == "unexpected status"
ErrReadBody == "reading master playlist"
ErrNoVariants == "no stream variants found"

StatusOK == 200

TagStreamInf == "#EXT-X-STREAM-INF"

\* the words of the model that begin with '#'
HashWords == {"#EXTM3U", "#EXT-X-STREAM-INF", "#EXT-X-I-FRAMES-ONLY"}

\* unicode.IsSpace symbols
SpaceChars == {" ", "\t", "\r"}

\* words net/url rejects: an invalid percent escape
BadEscapes == {"%zz"}

\* ASCII control characters, which net/url rejects anywhere in a URL
ControlChars == {"\t", "\r"}

RECURSIVE TrimLeft(_, _)
TrimLeft(s, cutset) ==
    IF Len(s) > 0 /\ s[1] \in cutset THEN TrimLeft(Tail(s), cutset) ELSE s

RECURSIVE TrimRight(_, _)
TrimRight(s, cutset) ==
    IF Len(s) > 0 /\ s[Len(s)] \in cutset
    THEN TrimRight(SubSeq(s, 1, Len(s) - 1), cutset) ELSE s

\* strings.Trim
Trim(s, cutset) == TrimRight(TrimLeft(s, cutset), cutset)

\* strings.TrimSpace
TrimSpace(s) == Trim(s, SpaceChars)

\* strings.HasPrefix(s, "#")
HasHashPrefix(s) == Len(s) > 0 /\ s[1] \in HashWords

\* strings.HasPrefix(s, "#EXT-X-STREAM-INF")
HasStreamInfPrefix(s) == Len(s) > 0 /\ s[1] = TagStreamInf

\* strings.Index for a one-character separator, 0 when absent
IndexOf(s, sep) ==
    IF \E k \in 1..Len(s) : s[k] = sep
    THEN CHOOSE k \in 1..Len(s) : s[k] = sep /\ \A j \in 1..(k - 1) : s[j] # sep
    ELSE 0

\* strings.LastIndex for a one-character separator, 0 when absent
LastIndexOf(s, sep) ==
    IF \E k \in 1..Len(s) : s[k] = sep
    THEN CHOOSE k \in 1..Len(s) : s[k] = sep /\ \A j \in (k + 1)..Len(s) : s[j] # sep
    ELSE 0

\* strings.Contains for a one-character separator
Contains(s, sep) == IndexOf(s, sep) # 0

\* strings.Split for a one-character separator
RECURSIVE Split(_, _)
Split(s, sep) ==
    LET k == IndexOf(s, sep)
    IN  IF k = 0 THEN <<s>>
        ELSE <<SubSeq(s, 1, k - 1)>> \o Split(SubSeq(s, k + 1, Len(s)), sep)

\* strings.SplitN(s, sep, 2) of a string that contains sep
SplitN2(s, sep) ==
    LET k == IndexOf(s, sep)
    IN  <<SubSeq(s, 1, k - 1), SubSeq(s, k + 1, Len(s))>>

\* parseAttributes: the map as the list of its assignments, in order
parseAttributes(line) ==
    LET parts == Split(line, ",")
        withEq == SelectSeq(parts, LAMBDA part : Contains(part, "="))
    IN  [n \in 1..Len(withEq) |->
            LET kv == SplitN2(TrimSpace(withEq[n]), "=")
            IN  [key |-> kv[1], val |-> Trim(kv[2], {"\""})]]

\* attrs[name]: the last assignment to the key, "" when there is none
MapGet(attrs, name) ==
    LET hits == {n \in 1..Len(attrs) : attrs[n].key = name}
    IN  IF hits = {} THEN <<>>
        ELSE attrs[CHOOSE n \in hits : \A m \in hits : m <= n].val

\* url.Parse, for strings without query, fragment, userinfo, port or dot
\* segments, whose words begin with a letter or a digit:
\* [scheme ":"] ["//" host] path
ParseURL(s) ==
    IF \E k \in 1..Len(s) : s[k] \in BadEscapes \cup ControlChars
    THEN [ok |-> FALSE, Scheme |-> "", Host |-> <<>>, Path |-> <<>>]
    ELSE IF Len(s) > 0 /\ s[1] = ":"
    THEN [ok |-> FALSE, Scheme |-> "", Host |-> <<>>, Path |-> <<>>]
    ELSE LET hasScheme == Len(s) >= 2 /\ s[1] \notin {"/", ":"} /\ s[2] = ":"
             rest == IF hasScheme THEN SubSeq(s, 3, Len(s)) ELSE s
             hasAuth == Len(rest) >= 2 /\ rest[1] = "/" /\ rest[2] = "/"
             afterAuth == IF hasAuth THEN SubSeq(rest, 3, Len(rest)) ELSE rest
             hostLen == IF hasAuth /\ Len(afterAuth) > 0 /\ afterAuth[1] # "/"
                        THEN 1 ELSE 0
         IN  [ok |-> TRUE,
              Scheme |-> IF hasScheme THEN s[1] ELSE "",
              Host |-> SubSeq(afterAuth, 1, hostLen),
              Path |-> SubSeq(afterAuth, hostLen + 1, Len(afterAuth))]

\* URL.String
URLString(u) ==
    (IF u.Scheme # "" THEN <<u.Scheme, ":">> ELSE <<>>)
    \o (IF (u.Scheme # "" \/ u.Host # <<>>) /\ (u.Host # <<>> \/ u.Path # <<>>)
        THEN <<"/", "/">> ELSE <<>>)
    \o u.Host
    \o (IF u.Path # <<>> /\ u.Path[1] # "/" /\ u.Host # <<>> THEN <<"/">> ELSE <<>>)
    \o u.Path

\* net/url resolvePath, without dot segments
ResolvePath(basePath, refPath) ==
    LET full == IF refPath = <<>> THEN basePath
                ELSE IF refPath[1] # "/"
                     THEN SubSeq(basePath, 1, LastIndexOf(basePath, "/")) \o refPath
                     ELSE refPath
    IN  IF full = <<>> THEN <<>>
        ELSE IF full[1] = "/" THEN full ELSE <<"/">> \o full

\* URL.ResolveReference
ResolveReference(base, ref) ==
    IF ref.Scheme # "" THEN ref
    ELSE IF ref.Host # <<>> THEN [ref EXCEPT !.Scheme = base.Scheme]
    ELSE [ok |-> TRUE, Scheme |-> base.Scheme, Host |-> base.Host,
          Path |-> ResolvePath(base.Path, ref.Path)]

resolveRelativeURL(baseStr, refStr) ==
    LET base == ParseURL(baseStr)
        ref == ParseURL(refStr)
    IN  IF ~base.ok THEN refStr
        ELSE IF ~ref.ok THEN refStr
        ELSE URLString(ResolveReference(base, ref))

\* client.Get fails before any request is sent: the URL does not parse, has
\* no http or https scheme, or names no host
GetRejects(u) ==
    LET p == ParseURL(u)
    IN  ~p.ok \/ p.Scheme \notin {"http", "https"} \/ p.Host = <<>>

\* variants = append([]StreamVariant{variant}, variants...)
PrependVariant(vs, v) == <<v>> \o vs

\* variants = append(variants, variant)
AppendVariant(vs, v) == Append(vs, v)

\* the emptiness test never taken
NoVariantsNever(vs) == FALSE

\* len(variants) == 0
NoVariants(vs) == Len(vs) = 0

\* the body of the range loop for the line at index n (1-based)
ScanStep(master, ls, n, vs) ==
    LET line == TrimSpace(ls[n])
    IN  IF HasStreamInfPrefix(line)
        THEN LET attrs == parseAttributes(line)
                 resolution == MapGet(attrs, <<"RESOLUTION">>)
                 bandwidth == MapGet(attrs, <<"BANDWIDTH">>)
             IN  IF n + 1 <= Len(ls)
                 THEN LET urlLine == TrimSpace(ls[n + 1])
                      IN  IF urlLine # <<>> /\ ~HasHashPrefix(urlLine)
                          THEN AppendVariant(vs,
                                   [Resolution |-> resolution,
                                    Bandwidth |-> bandwidth,
                                    URL |-> resolveRelativeURL(master, urlLine)])
                          ELSE vs
                 ELSE vs
        ELSE vs

(***************************************************************************)
(* Inputs of the playlist part.                                            *)
(***************************************************************************)
MasterURLs ==
    { <<"https", ":", "/", "/", "cdn.example.com", "/", "movie", "/", "master.m3u8">>,
      <<"master.m3u8">>,
      <<"%zz">> }

LineChoices ==
    { <<"#EXTM3U">>,
      <<>>,
      <<TagStreamInf, ":", "BANDWIDTH", "=", "1280000", ",",
        "RESOLUTION", "=", "720x480">>,
      <<TagStreamInf, ":", "PROGRAM-ID", "=", "1", ",", " ",
        "BANDWIDTH", "=", "\"", "640000", "\"">>,
      <<"720p", "/", "index.m3u8">>,
      <<"https", ":", "/", "/", "cdn2.example.com", "/", "320p.m3u8", "\r">>,
      <<"%zz">> }

\* strings.Split never returns an empty slice
Bodies == SeqsUpTo(LineChoices, MaxLines) \ {<<>>}

\* outcomes of client.Get and io.ReadAll
Responses ==
    { [kind |-> "transport error", status |-> 0],
      [kind |-> "read error", status |-> StatusOK],
      [kind |-> "response", status |-> StatusOK],
      [kind |-> "response", status |-> 204],
      [kind |-> "response", status |-> 404] }

NoResponse == [kind |-> "none", status |-> 0]

InitStreams ==
    /\ pc = "resolveVariants"
    /\ err = ErrNil
    /\ masterURL = <<>>
    /\ resp = NoResponse
    /\ lines = <<>>
    /\ i = 0
    /\ variants = <<>>
    /\ ret = <<>>
    /\ plain = <<>>
    /\ BuildIdle /\ DeobIdle /\ DecryptIdle /\ PipeIdle /\ ConcIdle

\* masterURL, err := o.ResolveVariants(): any decoded string, or an error
ResolveVariantsReturns ==
    /\ pc = "resolveVariants"
    /\ \/ /\ masterURL' \in MasterURLs
          /\ err' = ErrNil
          /\ pc' = "fetchMaster"
       \/ /\ masterURL' = <<>>
          /\ err' = ErrResolveVariants
          /\ pc' = "done"
    /\ UNCHANGED <<resp, lines, i, variants, ret, plain, buildVars, deobVars, decryptVars, pipeVars, concVars>>

\* client.Get(masterURL), the status check and io.ReadAll
FetchMaster ==
    /\ pc = "fetchMaster"
    /\ \E r \in Responses :
          /\ GetRejects(masterURL) => r.kind = "transport error"
          /\ resp' = r
          /\ IF r.kind = "transport error"
             THEN err' = ErrFetchMaster /\ pc' = "done" /\ lines' = lines /\ i' = i
             ELSE IF r.status # StatusOK
             THEN err' = ErrStatus /\ pc' = "done" /\ lines' = lines /\ i' = i
             ELSE IF r.kind = "read error"
             THEN err' = ErrReadBody /\ pc' = "done" /\ lines' = lines /\ i' = i
             ELSE /\ lines' \in Bodies
                  /\ i' = 1
                  /\ pc' = "scan"
                  /\ err' = err
    /\ UNCHANGED <<masterURL, variants, ret, plain, buildVars, deobVars, decryptVars, pipeVars, concVars>>

\* one iteration of `for i, line := range lines`
ScanLine ==
    /\ pc = "scan"
    /\ i <= Len(lines)
    /\ variants' = ScanStep(masterURL, lines, i, variants)
    /\ i' = i + 1
    /\ UNCHANGED <<pc, err, masterURL, resp, lines, ret, plain,
                   buildVars, deobVars, decryptVars, pipeVars, concVars>>

\* the end of the loop: the emptiness check and the return
ReturnStreams ==
    /\ pc = "scan"
    /\ i > Len(lines)
    /\ IF NoVariants(variants)
       THEN err' = ErrNoVariants /\ ret' = <<>>
       ELSE err' = ErrNil /\ ret' = variants
    /\ pc' = "done"
    /\ UNCHANGED <<masterURL, resp, lines, i, variants, plain,
                   buildVars, deobVars, decryptVars, pipeVars, concVars>>

NextStreams ==
    \/ ResolveVariantsReturns
    \/ FetchMaster
    \/ ScanLine
    \/ ReturnStreams

SpecStreams == InitStreams /\ [][NextStreams]_vars

(***************************************************************************)
(* The playlist reading the design describes, against which the scan is    *)
(* compared.                                                               *)
(***************************************************************************)
\* a line that is neither blank nor '#'-prefixed
IsURLLine(l) == l # <<>> /\ ~HasHashPrefix(l)

\* the index of the first URL line after line n, 0 when there is none
NextURLIndex(ls, n) ==
    LET later == {j \in (n + 1)..Len(ls) : IsURLLine(TrimSpace(ls[j]))}
    IN  IF later = {} THEN 0 ELSE CHOOSE j \in later : \A m \in later : j <= m

\* for every stream-info line from line n on that has a URL line after it,
\* that line resolved against the manifest URL
RECURSIVE ClaimedURLs(_, _, _)
ClaimedURLs(master, ls, n) ==
    IF n > Len(ls) THEN <<>>
    ELSE (IF HasStreamInfPrefix(TrimSpace(ls[n])) /\ NextURLIndex(ls, n) # 0
          THEN <<resolveRelativeURL(master, TrimSpace(ls[NextURLIndex(ls, n)]))>>
          ELSE <<>>)
         \o ClaimedURLs(master, ls, n + 1)

\* the attribute list of a tag line: what follows the first ':'
AttributeList(line) ==
    IF Contains(line, ":") THEN SubSeq(line, IndexOf(line, ":") + 1, Len(line))
    ELSE <<>>

\* the value of attribute `name` in the KEY=VALUE list of a tag line, quotes
\* stripped, "" when absent
ClaimedAttr(line, name) == MapGet(parseAttributes(AttributeList(line)), <<name>>)

\* the variant the scan builds for the stream-info line n and the line after it
VariantFor(master, ls, n) ==
    LET attrs == parseAttributes(TrimSpace(ls[n]))
    IN  [Resolution |-> MapGet(attrs, <<"RESOLUTION">>),
         Bandwidth |-> MapGet(attrs, <<"BANDWIDTH">>),
         URL |-> resolveRelativeURL(master, TrimSpace(ls[n + 1]))]

\* the elements of a set of numbers in increasing order
RECURSIVE SortedSeq(_)
SortedSeq(S) ==
    IF S = {} THEN <<>>
    ELSE LET least == CHOOSE x \in S : \A y \in S : x <= y
         IN  <<least>> \o SortedSeq(S \ {least})

StreamInfLines(ls) == {n \in 1..Len(ls) : HasStreamInfPrefix(TrimSpace(ls[n]))}

\* url.URL.IsAbs, with a host
IsAbsoluteURL(s) ==
    LET p == ParseURL(s) IN p.ok /\ p.Scheme # "" /\ p.Host # <<>>

\* the body was read and the loop has ended
Scanned == pc = "done" /\ lines # <<>>

\* C6: for every #EXT-X-STREAM-INF line the variant's URL is the next line that
\* is neither blank nor '#'-prefixed (lines in between are passed over) and a
\* variant is emitted for that pair; a stream-info line with no such line after
\* it is skipped.
C6_NextURLLine ==
    Scanned =>
        [k \in 1..Len(variants) |-> variants[k].URL] = ClaimedURLs(masterURL, lines, 1)

\* C7: the variant emitted for a #EXT-X-STREAM-INF line carries the values of
\* the RESOLUTION and BANDWIDTH attributes of that line's KEY=VALUE list,
\* quotes stripped, wherever the attribute stands in the list, and "" when the
\* attribute is absent.
C7_AttributesOfLine ==
    [][(pc = "scan" /\ Len(variants') > Len(variants)) =>
          LET v == variants'[Len(variants')]
              line == TrimSpace(lines[i])
          IN  /\ v.Resolution = ClaimedAttr(line, "RESOLUTION")
              /\ v.Bandwidth = ClaimedAttr(line, "BANDWIDTH")]_vars

\* C8: the variants appear in the order of their #EXT-X-STREAM-INF lines, each
\* stream-info line yields at most one variant, and every variant comes from a
\* stream-info line (and the line after it); the list returned on success is
\* that list.
C8_OrderPreserved ==
    pc \in {"scan", "done"} =>
        /\ \E S \in SUBSET (StreamInfLines(lines) \ {Len(lines)}) :
              LET idx == SortedSeq(S)
              IN  variants = [k \in 1..Len(idx) |-> VariantFor(masterURL, lines, idx[k])]
        /\ (pc = "done" /\ err = ErrNil) => ret = variants

\* two different variants have been returned
C8_Witness ==
    /\ pc = "done"
    /\ err = ErrNil
    /\ Len(ret) = 2
    /\ ret[1] # ret[2]

\* C9: every call ends with a non-empty variant list and no error, or with an
\* error and no variants; a playlist in which no variant is found, such as one
\* without any #EXT-X-STREAM-INF line, yields NoVariantsFound.
C9_NoPartialResult ==
    pc = "done" =>
        /\ \/ err = ErrNil /\ ret # <<>>
           \/ err # ErrNil /\ ret = <<>>
        /\ (Scanned /\ (StreamInfLines(lines) = {} \/ variants = <<>>)) =>
              err = ErrNoVariants

\* a playlist of several lines, none of them a stream-info line, has been
\* scanned and refused
C9_Witness ==
    /\ Scanned
    /\ Len(lines) >= 2
    /\ StreamInfLines(lines) = {}
    /\ err = ErrNoVariants
    /\ ret = <<>>

\* C10: every StreamVariant returned has a URL that is non-empty and absolute.
C10_AbsoluteURLs ==
    (pc = "done" /\ err = ErrNil) =>
        \A k \in 1..Len(ret) : ret[k].URL # <<>> /\ IsAbsoluteURL(ret[k].URL)

(***************************************************************************)
(* The resolution pipeline: ResolveVariants, fetchContent, the extractors, *)
(* decodeStreamURL and the tail of ResolveStreams, run for one request.    *)
(* A page is what goquery and regexp see of it: the entry page is its      *)
(* iframe#player_iframe, the RCP page its first src: '/prorcp/...' match,  *)
(* the ProRCP page its script and div elements.                            *)
(***************************************************************************)
ErrCreateRequest == "creating request"
ErrFetchPage == "fetching page"
ErrPageStatus == "unexpected status code"
ErrReadPage == "reading page body"
ErrNoIframe == "no iframe src found for RCP URL"
ErrNoProRCP == "no ProRCP URL found in RCP page"
ErrNoHiddenDiv == "no hidden div found"
ErrDeobfuscate == "deobfuscating content"
ErrNoComponents == "failed to extract necessary components for decoding"

\* the printable ASCII characters, from code 32 to code 126 (no text of the
\* model holds a backslash or a backquote, codes 92 and 96, whose places a
\* bar keeps)
AsciiChars ==
    <<" ", "!", "\"", "#", "$", "%", "&", "'", "(", ")", "*", "+",
       ",", "-", ".", "/", "0", "1", "2", "3", "4", "5", "6", "7",
       "8", "9", ":", ";", "<", "=", ">", "?", "@", "A", "B", "C",
       "D", "E", "F", "G", "H", "I", "J", "K", "L", "M", "N", "O",
       "P", "Q", "R", "S", "T", "U", "V", "W", "X", "Y", "Z", "[",
       "|", "]", "^", "_", "|", "a", "b", "c", "d", "e", "f", "g",
       "h", "i", "j", "k", "l", "m", "n", "o", "p", "q", "r", "s",
       "t", "u", "v", "w", "x", "y", "z", "{", "|", "}", "~">>

\* code points unicode.IsSpace accepts
SpaceCodes == {9, 10, 11, 12, 13, 32, 133, 160}

\* code points of the separator symbols: tab, return, space, double quote,
\* comma, slash, colon and equals sign
SeparatorCodes == {9, 13, 32, 34, 44, 47, 58, 61}

\* the symbol of a code point: printable ASCII as itself, tab and return as
\* themselves, any other control character as a tab
CharOf(c) ==
    IF c >= 32 /\ c <= 126 THEN AsciiChars[c - 31]
    ELSE IF c = 13 THEN "\r" ELSE "\t"

\* the word a run of code points spells
RECURSIVE WordOf(_)
WordOf(cs) == IF Len(cs) = 0 THEN "" ELSE CharOf(cs[1]) \o WordOf(Tail(cs))

\* how many code points at the head of cs are no separators
RECURSIVE WordLen(_)
WordLen(cs) ==
    IF Len(cs) = 0 \/ cs[1] \in SeparatorCodes THEN 0 ELSE 1 + WordLen(Tail(cs))

\* string(decodedBytes) as a sequence of symbols (ASCII text)
RECURSIVE Symbols(_)
Symbols(cs) ==
    IF Len(cs) = 0 THEN <<>>
    ELSE IF cs[1] \in SeparatorCodes THEN <<CharOf(cs[1])>> \o Symbols(Tail(cs))
    ELSE LET n == WordLen(cs)
         IN  <<WordOf(SubSeq(cs, 1, n))>> \o Symbols(SubSeq(cs, n + 1, Len(cs)))

\* "https://cloudnestra.com", the host written into ResolveVariants
CloudnestraOrigin == <<"https", ":", "/", "/", "cloudnestra.com">>

\* the directory name the script selector looks for
ScriptMarker == "sV05kUlNvOdOxvtC"

HiddenStyle == "display:none;"

\* the optional script steps of decodeStreamURL
ScriptStages == {"findScript", "fetchScript", "saveScript"}

\* the stages that call fetchContent
FetchContentStages == {"fetchEntry", "fetchStage1", "fetchStage2", "fetchScript"}

(***************************************************************************)
(* Inputs of the pipeline.                                                 *)
(***************************************************************************)
PipelineOptions ==
    { [IMDBID |-> "tt0137523", Type |-> Movie, Season |-> 0, Episode |-> 0],
      [IMDBID |-> "tt1300854", Type |-> TV, Season |-> 1, Episode |-> 2],
      [IMDBID |-> "tt1300854", Type |-> TV, Season |-> 0, Episode |-> 0] }

EntryPages ==
    { [iframe |-> FALSE, src |-> <<>>],
      [iframe |-> TRUE, src |-> <<>>],
      [iframe |-> TRUE, src |-> <<"/", "/", "cloudnestra.com", "/", "rcp", "/", "YTUz">>],
      [iframe |-> TRUE, src |-> <<"/", "/", "vidsrc-relay.net", "/", "rcp", "/", "YTUz">>],
      [iframe |-> TRUE, src |-> <<"/", "/", "cloudnestra.com", "/", "%zz">>] }

RCPPages ==
    { [prorcp |-> <<>>],
      [prorcp |-> <<"/", "prorcp", "/", "OTk0">>] }

\* "https://h.io/v/m.m3u8"
ManifestText == <<104, 116, 116, 112, 115, 58, 47, 47, 104, 46, 105, 111, 47, 118, 47, 109, 46, 109, 51, 117, 56>>

\* "hello"
NotURLText == <<104, 101, 108, 108, 111>>

\* an equals sign and a non-ASCII rune, in turn, after every base64 character
FillerFor(p) ==
    [k \in 1..Len(B64Encode(p)) |-> IF k % 2 = 1 THEN 61 ELSE 233]

ManifestToken == Obfuscate(ManifestText, FillerFor(ManifestText))
NotURLToken == Obfuscate(NotURLText, FillerFor(NotURLText))

MarkedScript == <<"/", ScriptMarker, "/", "bd22.js">>
OtherScript == <<"/", "static", "/", "jquery.js">>

ProRCPPages ==
    { [scripts |-> <<>>, divs |-> <<>>],
      [scripts |-> <<OtherScript>>,
       divs |-> <<[style |-> "display: none;", text |-> ManifestToken]>>],
      [scripts |-> <<OtherScript, MarkedScript>>,
       divs |-> <<[style |-> "color:red;", text |-> NotURLToken],
                  [style |-> HiddenStyle, text |-> <<10, 32>> \o ManifestToken \o <<10>>],
                  [style |-> HiddenStyle, text |-> NotURLToken]>>],
      [scripts |-> <<MarkedScript>>,
       divs |-> <<[style |-> HiddenStyle, text |-> <<32, 10, 32>>],
                  [style |-> HiddenStyle, text |-> ManifestToken]>>],
      [scripts |-> <<>>,
       divs |-> <<[style |-> HiddenStyle, text |-> NotURLToken]>>],
      [scripts |-> <<MarkedScript>>,
       divs |-> <<[style |-> HiddenStyle, text |-> <<65, 61, 65>>]>>],
      [scripts |-> <<>>,
       divs |-> <<[style |-> HiddenStyle, text |-> <<10, 81, 10, 81, 10>>]>>] }

\* bodies of the script
ScriptBodies == {<<"var", " ", "a">>, <<"var", " ", "b">>}

\* master playlists served for the manifest URL
PipelineBodies ==
    { <<<<"#EXTM3U">>,
        <<TagStreamInf, ":", "BANDWIDTH", "=", "1280000", ",",
          "RESOLUTION", "=", "720x480">>,
        <<"720p", "/", "index.m3u8">>,
        <<TagStreamInf, ":", "BANDWIDTH", "=", "640000", ",",
          "RESOLUTION", "=", "320x240">>,
        <<"320p", "/", "index.m3u8">>>>,
      <<<<"#EXTM3U">>, <<>>>> }

(***************************************************************************)
(* The operators of the pipeline.                                          *)
(***************************************************************************)
\* doc.Find("iframe#player_iframe").Attr("src"); !exists || src == ""
extractRCPURL(page) ==
    IF ~page.iframe \/ page.src = <<>>
    THEN [url |-> <<>>, err |-> ErrNoIframe]
    ELSE [url |-> page.src, err |-> ErrNil]

\* regexp src: '(/prorcp/[^']+) and FindStringSubmatch
extractProRCPURL(page) ==
    IF page.prorcp = <<>>
    THEN [url |-> <<>>, err |-> ErrNoProRCP]
    ELSE [url |-> page.prorcp, err |-> ErrNil]

\* src*='/sV05kUlNvOdOxvtC/'
HasMarker(src) ==
    \E k \in 1..(Len(src) - 2) :
        src[k] = "/" /\ src[k + 1] = ScriptMarker /\ src[k + 2] = "/"

\* doc.Find("script[src*='/sV05kUlNvOdOxvtC/']")
MarkedScripts(page) == SelectSeq(page.scripts, HasMarker)

\* doc.Find("div[style='display:none;']")
HiddenDivs(page) == SelectSeq(page.divs, LAMBDA d : d.style = HiddenStyle)

\* a token test that lets the empty token through
TokenPresentAlways(dc) == TRUE

\* divContent != ""
TokenPresent(dc) == dc # <<>>

\* a status test that lets every status through
StatusIsOKAlways(status) == TRUE

\* resp.StatusCode == http.StatusOK
StatusIsOK(status) == status = StatusOK

\* a script failure handed back to the caller
ScriptErrReturned(e) == e

\* a failure of the script fetch, of MkdirAll or of WriteFile is logged, and
\* decodeStreamURL goes on: no error comes of it
ScriptErr(e) == ErrNil

\* the request a stage sends: its URL and its Referer header (<<>> when the
\* header is not set).  The entry URL, a string of buildEmbedURL, is one word.
RequestOf(stage) ==
    CASE stage = "fetchEntry" ->
            [stage |-> stage, url |-> <<embedURL>>, referer |-> <<>>]
      [] stage = "fetchStage1" ->
            [stage |-> stage, url |-> <<"https", ":">> \o rcpURL, referer |-> <<>>]
      [] stage = "fetchStage2" ->
            [stage |-> stage, url |-> CloudnestraOrigin \o proRCPURL,
             referer |-> CloudnestraOrigin]
      [] stage = "fetchScript" ->
            [stage |-> stage,
             url |-> CloudnestraOrigin \o MarkedScripts(proRCPHTML)[1],
             referer |-> CloudnestraOrigin]
      [] OTHER ->
            [stage |-> stage, url |-> masterURL, referer |-> <<>>]

\* http.NewRequest fails on a URL that does not parse (the entry URL, built
\* on the fixed https base, always parses)
NewRequestFails(req) == req.stage # "fetchEntry" /\ ~ParseURL(req.url).ok

\* client.Do and client.Get refuse a URL without sending anything
DoRejects(req) == req.stage # "fetchEntry" /\ GetRejects(req.url)

Pending == -1

\* the request as the log keeps it, with the status of its answer
Logged(req, status) ==
    [stage |-> req.stage, url |-> req.url, referer |-> req.referer,
     status |-> status]

\* a pipeline that goes from the entry page straight to the stage-1 fetch
AfterFetchSkipping(stage) ==
    CASE stage = "fetchEntry" -> "fetchStage1"
      [] stage = "fetchStage1" -> "extractStage2"
      [] stage = "fetchStage2" -> "findScript"
      [] stage = "fetchScript" -> "saveScript"
      [] OTHER -> "parse"

\* the statement after a fetch that succeeded
AfterFetch(stage) ==
    CASE stage = "fetchEntry" -> "extractStage1"
      [] stage = "fetchStage1" -> "extractStage2"
      [] stage = "fetchStage2" -> "findScript"
      [] stage = "fetchScript" -> "saveScript"
      [] OTHER -> "parse"

\* the pages a stage's URL may serve
BodiesFor(stage) ==
    CASE stage = "fetchEntry" -> EntryPages
      [] stage = "fetchStage1" -> RCPPages
      [] stage = "fetchStage2" -> ProRCPPages
      [] OTHER -> ScriptBodies

\* a fetch that failed: the script's failure is logged, any other is returned
FetchFails(stage, e, url) ==
    LET e2 == IF stage = "fetchScript" THEN ScriptErr(e) ELSE e
    IN  /\ err' = e2
        /\ pc' = IF e2 = ErrNil THEN "extractToken" ELSE "done"
        /\ errURL' = IF e2 = ErrNil THEN errURL ELSE url

\* html, err := fetchContent(...) returning a body
Deliver(stage, body) ==
    /\ embedHTML' = IF stage = "fetchEntry" THEN body ELSE embedHTML
    /\ rcpHTML' = IF stage = "fetchStage1" THEN body ELSE rcpHTML
    /\ proRCPHTML' = IF stage = "fetchStage2" THEN body ELSE proRCPHTML
    /\ jsContent' = IF stage = "fetchScript" THEN body ELSE jsContent
    /\ pc' = AfterFetch(stage)
    /\ UNCHANGED <<err, errURL>>

\* the whole range loop over lines
RECURSIVE ScanAll(_, _, _, _)
ScanAll(master, ls, n, vs) ==
    IF n > Len(ls) THEN vs
    ELSE ScanAll(master, ls, n + 1, ScanStep(master, ls, n, vs))

(***************************************************************************)
(* The pipeline as a state machine: one resolution, one statement at a     *)
(* time.  A fetch is two steps, the request sent and the answer received.  *)
(***************************************************************************)
\* what no statement of the pipeline writes
idleVars == <<plain, deobVars, decryptVars, concVars>>

InitPipeline ==
    /\ pc = "buildEntryURL"
    /\ err = ErrNil
    /\ o \in PipelineOptions
    /\ embedURL = ""
    /\ plain = <<>>
    /\ masterURL = <<>>
    /\ resp = NoResponse
    /\ lines = <<>>
    /\ i = 0
    /\ variants = <<>>
    /\ ret = <<>>
    /\ DeobIdle /\ DecryptIdle /\ PipeIdle /\ ConcIdle

\* embedURL, err := o.buildEmbedURL()
BuildEntryURL ==
    /\ pc = "buildEntryURL"
    /\ LET r == buildEmbedURL(o)
       IN  /\ embedURL' = r.url
           /\ err' = r.err
           /\ pc' = IF r.err = ErrNil THEN "fetchEntry" ELSE "done"
    /\ stages' = Append(stages, pc)
    /\ UNCHANGED <<o, streamVars, pageVars, scriptVars, netVars, idleVars>>

\* fetchContent up to client.Do(req): the request is built and sent
FetchContentSend ==
    /\ pc \in FetchContentStages
    /\ inflight = <<>>
    /\ stages' = Append(stages, pc)
    /\ LET req == RequestOf(pc)
       IN  IF NewRequestFails(req)
           THEN /\ FetchFails(pc, ErrCreateRequest, req.url)
                /\ UNCHANGED <<requests, inflight>>
           ELSE IF DoRejects(req)
           THEN /\ FetchFails(pc, ErrFetchPage, req.url)
                /\ UNCHANGED <<requests, inflight>>
           ELSE /\ requests' = Append(requests, Logged(req, Pending))
                /\ inflight' = <<req>>
                /\ UNCHANGED <<pc, err, errURL>>
    /\ UNCHANGED <<o, embedURL, streamVars, pageVars, scriptVars, idleVars>>

\* fetchContent from the return of client.Do(req): the status check and
\* io.ReadAll
FetchContentReceive ==
    /\ pc \in FetchContentStages
    /\ inflight # <<>>
    /\ \E r \in Responses :
          /\ resp' = r
          /\ requests' = [requests EXCEPT ![Len(requests)].status = r.status]
          /\ inflight' = <<>>
          /\ IF r.kind = "transport error"
             THEN /\ FetchFails(pc, ErrFetchPage, inflight[1].url)
                  /\ UNCHANGED <<embedHTML, rcpHTML, proRCPHTML, jsContent>>
             ELSE IF ~StatusIsOK(r.status)
             THEN /\ FetchFails(pc, ErrPageStatus, inflight[1].url)
                  /\ UNCHANGED <<embedHTML, rcpHTML, proRCPHTML, jsContent>>
             ELSE IF r.kind = "read error"
             THEN /\ FetchFails(pc, ErrReadPage, inflight[1].url)
                  /\ UNCHANGED <<embedHTML, rcpHTML, proRCPHTML, jsContent>>
             ELSE \E body \in BodiesFor(pc) : Deliver(pc, body)
    /\ UNCHANGED <<o, embedURL, masterURL, lines, i, variants, ret, rcpURL,
                   proRCPURL, divContent, scriptFile, stages, idleVars>>

\* rcpURL, err := extractRCPURL(embedHTML)
ExtractStage1 ==
    /\ pc = "extractStage1"
    /\ LET r == extractRCPURL(embedHTML)
       IN  /\ rcpURL' = r.url
           /\ err' = r.err
           /\ pc' = IF r.err = ErrNil THEN "fetchStage1" ELSE "done"
    /\ stages' = Append(stages, pc)
    /\ UNCHANGED <<o, embedURL, streamVars, embedHTML, rcpHTML, proRCPURL,
                   proRCPHTML, divContent, scriptVars, netVars, idleVars>>

\* proRCPURL, err := extractProRCPURL(rcpHTML)
ExtractStage2 ==
    /\ pc = "extractStage2"
    /\ LET r == extractProRCPURL(rcpHTML)
       IN  /\ proRCPURL' = r.url
           /\ err' = r.err
           /\ pc' = IF r.err = ErrNil THEN "fetchStage2" ELSE "done"
    /\ stages' = Append(stages, pc)
    /\ UNCHANGED <<o, embedURL, streamVars, embedHTML, rcpURL, rcpHTML,
                   proRCPHTML, divContent, scriptVars, netVars, idleVars>>

\* decodeStreamURL, step 1: the script selector
FindScript ==
    /\ pc = "findScript"
    /\ pc' = IF Len(MarkedScripts(proRCPHTML)) > 0 THEN "fetchScript"
             ELSE "extractToken"
    /\ stages' = Append(stages, pc)
    /\ UNCHANGED <<err, o, embedURL, streamVars, pageVars, scriptVars, netVars,
                   idleVars>>

\* os.MkdirAll("scripts", 0755) and os.WriteFile("scripts/prorcp.js", ...): a
\* write that fails leaves the file as it was or cut short
SaveScript ==
    /\ pc = "saveScript"
    /\ \E mkdir \in BOOLEAN, write \in {"written", "untouched", "truncated"} :
          LET e == IF ~mkdir THEN "Failed to create scripts directory"
                   ELSE IF write # "written" THEN "Failed to write JS file"
                   ELSE ErrNil
              e2 == IF e = ErrNil THEN ErrNil ELSE ScriptErr(e)
          IN  /\ scriptFile' =
                     IF ~mkdir \/ write = "untouched" THEN scriptFile
                     ELSE IF write = "truncated"
                     THEN [exists |-> TRUE, content |-> <<>>]
                     ELSE [exists |-> TRUE, content |-> jsContent]
              /\ err' = e2
              /\ pc' = IF e2 = ErrNil THEN "extractToken" ELSE "done"
    /\ stages' = Append(stages, pc)
    /\ UNCHANGED <<o, embedURL, streamVars, pageVars, jsContent, netVars, idleVars>>

\* decodeStreamURL, step 2: the hidden div and its trimmed text
ExtractToken ==
    /\ pc = "extractToken"
    /\ LET divSel == HiddenDivs(proRCPHTML)
       IN  IF Len(divSel) > 0
           THEN /\ divContent' = Trim(divSel[1].text, SpaceCodes)
                /\ pc' = "decode"
                /\ err' = err
           ELSE /\ divContent' = divContent
                /\ pc' = "done"
                /\ err' = ErrNoHiddenDiv
    /\ stages' = Append(stages, pc)
    /\ UNCHANGED <<o, embedURL, streamVars, embedHTML, rcpURL, rcpHTML, proRCPURL,
                   proRCPHTML, scriptVars, netVars, idleVars>>

\* decodeStreamURL, step 3, and the returns of ResolveVariants and of
\* ResolveStreams' first statement: the decoded string is the manifest URL
Decode ==
    /\ pc = "decode"
    /\ IF TokenPresent(divContent)
       THEN LET r == Deobfuscate(divContent)
            IN  IF r.err # ErrNil
                THEN err' = ErrDeobfuscate /\ pc' = "done" /\ masterURL' = <<>>
                ELSE err' = ErrNil /\ pc' = "fetchManifest"
                     /\ masterURL' = Symbols(r.s)
       ELSE err' = ErrNoComponents /\ pc' = "done" /\ masterURL' = <<>>
    /\ stages' = Append(stages, pc)
    /\ UNCHANGED <<o, embedURL, resp, lines, i, variants, ret, pageVars,
                   scriptVars, netVars, idleVars>>

\* client.Get(masterURL): the request is sent
GetManifestSend ==
    /\ pc = "fetchManifest"
    /\ inflight = <<>>
    /\ stages' = Append(stages, pc)
    /\ LET req == RequestOf(pc)
       IN  IF GetRejects(masterURL)
           THEN /\ err' = ErrFetchMaster
                /\ pc' = "done"
                /\ errURL' = masterURL
                /\ UNCHANGED <<requests, inflight>>
           ELSE /\ requests' = Append(requests, Logged(req, Pending))
                /\ inflight' = <<req>>
                /\ UNCHANGED <<pc, err, errURL>>
    /\ UNCHANGED <<o, embedURL, streamVars, pageVars, scriptVars, idleVars>>

\* the return of client.Get(masterURL), the status check, io.ReadAll and
\* strings.Split
GetManifestReceive ==
    /\ pc = "fetchManifest"
    /\ inflight # <<>>
    /\ \E r \in Responses :
          /\ resp' = r
          /\ requests' = [requests EXCEPT ![Len(requests)].status = r.status]
          /\ inflight' = <<>>
          /\ IF r.kind = "transport error"
             THEN err' = ErrFetchMaster /\ pc' = "done" /\ lines' = lines
                  /\ errURL' = masterURL
             ELSE IF ~StatusIsOK(r.status)
             THEN err' = ErrStatus /\ pc' = "done" /\ lines' = lines
                  /\ errURL' = masterURL
             ELSE IF r.kind = "read error"
             THEN err' = ErrReadBody /\ pc' = "done" /\ lines' = lines
                  /\ errURL' = masterURL
             ELSE /\ lines' \in PipelineBodies
                  /\ pc' = "parse"
                  /\ UNCHANGED <<err, errURL>>
    /\ UNCHANGED <<o, embedURL, masterURL, i, variants, ret, pageVars,
                   scriptVars, stages, idleVars>>

\* the range loop over lines, the emptiness check and the return
ParsePlaylist ==
    /\ pc = "parse"
    /\ variants' = ScanAll(masterURL, lines, 1, <<>>)
    /\ i' = Len(lines) + 1
    /\ IF NoVariants(variants')
       THEN err' = ErrNoVariants /\ ret' = <<>> /\ errURL' = masterURL
       ELSE err' = ErrNil /\ ret' = variants' /\ errURL' = errURL
    /\ pc' = "done"
    /\ stages' = Append(stages, pc)
    /\ UNCHANGED <<o, embedURL, masterURL, resp, lines, pageVars, scriptVars,
                   requests, inflight, idleVars>>

NextPipeline ==
    \/ BuildEntryURL
    \/ FetchContentSend
    \/ FetchContentReceive
    \/ ExtractStage1
    \/ ExtractStage2
    \/ FindScript
    \/ SaveScript
    \/ ExtractToken
    \/ Decode
    \/ GetManifestSend
    \/ GetManifestReceive
    \/ ParsePlaylist

SpecPipeline == InitPipeline /\ [][NextPipeline]_vars

(***************************************************************************)
(* Properties of the pipeline.                                             *)
(***************************************************************************)
\* the stage has started
Started(stage) == \E k \in 1..Len(stages) : stages[k] = stage

\* ResolveVariants has returned masterURL with a nil error
VariantsResolved == pc = "fetchManifest" \/ Started("fetchManifest")

\* C11: a decoded string that is not a syntactically valid absolute URL makes
\* the resolution fail: ResolveVariants never returns it as the manifest URL and
\* no manifest fetch is attempted with it.
C11_DecodedURLValidated == VariantsResolved => IsAbsoluteURL(masterURL)

\* C12: on a stage-2 page without a div whose style is exactly display:none;
\* the hidden-token extraction returns an error, and so it does when the
\* trimmed text of the div is empty: success never comes with an empty token or
\* an empty manifest URL.
C12_HiddenTokenRequired ==
    /\ (Started("extractToken") /\ Len(HiddenDivs(proRCPHTML)) = 0)
          => (pc = "done" /\ err = ErrNoHiddenDiv /\ masterURL = <<>>)
    /\ (Started("decode")
          /\ Trim(HiddenDivs(proRCPHTML)[1].text, SpaceCodes) = <<>>)
          => (pc = "done" /\ err = ErrNoComponents /\ masterURL = <<>>)
    /\ VariantsResolved => (divContent # <<>> /\ masterURL # <<>>)

C12_Witness ==
    /\ pc = "done"
    /\ err = ErrNoHiddenDiv
    /\ Len(proRCPHTML.divs) > 0

\* the answer to request k carried a status outside 200..299
NonOKAnswer(k) ==
    /\ requests[k].stage \in {"fetchEntry", "fetchStage1", "fetchStage2", "fetchManifest"}
    /\ requests[k].status > 0
    /\ requests[k].status \notin 200..299

\* C13: when a pipeline fetch (entry, stage-1, stage-2 or manifest) is answered
\* with 404 or any other status outside 2xx, the resolution ends with the
\* unexpected-status error for that URL, the fetch is not sent again and no
\* later stage is performed.
C13_NonOKStatusAborts ==
    \A k \in 1..Len(requests) :
        NonOKAnswer(k) =>
            /\ k = Len(requests)
            /\ pc = "done"
            /\ err \in {ErrPageStatus, ErrStatus}
            /\ errURL = requests[k].url
            /\ stages[Len(stages)] = requests[k].stage
            /\ \A j \in 1..Len(requests) :
                   j # k => requests[j].stage # requests[k].stage
            /\ ret = <<>>

C13_Witness ==
    /\ Len(requests) = 3
    /\ requests[3].stage = "fetchStage2"
    /\ requests[3].status = 404
    /\ pc = "done"

\* the stages the pipeline is said to have, in their order
ListedStages ==
    <<"buildEntryURL", "fetchEntry", "extractStage1", "fetchStage1",
      "extractStage2", "fetchStage2", "extractToken", "decode", "fetchManifest",
      "parse">>

IsListed(stage) == \E k \in 1..Len(ListedStages) : ListedStages[k] = stage

\* the stages whose failure is the error e
StagesFailingWith(e) ==
    CASE e \in {ErrEmptyID, ErrSeasonEpisode, ErrUnsupportedType} -> {"buildEntryURL"}
      [] e \in {ErrCreateRequest, ErrFetchPage, ErrPageStatus, ErrReadPage} ->
            {"fetchEntry", "fetchStage1", "fetchStage2"}
      [] e = ErrNoIframe -> {"extractStage1"}
      [] e = ErrNoProRCP -> {"extractStage2"}
      [] e = ErrNoHiddenDiv -> {"extractToken"}
      [] e \in {ErrDeobfuscate, ErrNoComponents} -> {"decode"}
      [] e \in {ErrFetchMaster, ErrStatus, ErrReadBody} -> {"fetchManifest"}
      [] e = ErrNoVariants -> {"parse"}
      [] OTHER -> {}

\* C14: the stages run in the fixed order build entry URL, fetch entry, extract
\* stage-1 URL, fetch stage-1, extract stage-2 URL, fetch stage-2, extract
\* token, decode, fetch manifest, parse; each at most once and only after the
\* one before it succeeded; at most one request is in flight; the first failure
\* ends the run and is the error returned.
C14_StagesInOrder ==
    LET run == SelectSeq(stages, IsListed)
    IN  /\ Len(run) <= Len(ListedStages)
        /\ run = SubSeq(ListedStages, 1, Len(run))
        /\ Len(inflight) <= 1
        /\ err # ErrNil =>
              /\ pc = "done"
              /\ run[Len(run)] \in StagesFailingWith(err)
        /\ pc = "done" => ~ENABLED NextPipeline

C14_Witness ==
    /\ pc = "done"
    /\ err = ErrNil
    /\ Len(ret) = 2
    /\ SelectSeq(stages, IsListed) = ListedStages
    /\ Started("saveScript")

\* scheme://host of a URL
OriginOf(u) == LET p == ParseURL(u) IN <<p.Scheme, ":", "/", "/">> \o p.Host

\* C15: the stage-2 fetch carries a Referer header equal to the origin of the
\* host that served the stage-1 URL taken from the entry page, whatever host
\* that is; the entry fetch and the stage-1 fetch carry no Referer header.
C15_RefererIsStage1Origin ==
    \A k \in 1..Len(requests) :
        /\ requests[k].stage = "fetchStage2" =>
              requests[k].referer = OriginOf(<<"https", ":">> \o rcpURL)
        /\ requests[k].stage \in {"fetchEntry", "fetchStage1"} =>
              requests[k].referer = <<>>

\* decodeStreamURL on a page without the script: steps 2 and 3 alone
decodeStreamURLNoScript(page) ==
    LET divSel == HiddenDivs(page)
    IN  IF Len(divSel) = 0 THEN [url |-> <<>>, err |-> ErrNoHiddenDiv]
        ELSE LET dc == Trim(divSel[1].text, SpaceCodes)
                 r == Deobfuscate(dc)
             IN  IF dc = <<>> THEN [url |-> <<>>, err |-> ErrNoComponents]
                 ELSE IF r.err # ErrNil THEN [url |-> <<>>, err |-> ErrDeobfuscate]
                 ELSE [url |-> Symbols(r.s), err |-> ErrNil]

\* the script was asked for and not saved
ScriptFailed ==
    \/ \E k \in 1..Len(requests) :
          requests[k].stage = "fetchScript" /\ requests[k].status \notin {Pending, StatusOK}
    \/ Started("fetchScript") /\ ~Started("saveScript") /\ pc # "fetchScript"
    \/ Started("saveScript") /\ scriptFile.content # jsContent

\* C16: the manifest URL or the error that decodeStreamURL returns is the one
\* the page gives without its script, whether the script is absent, saved, not
\* fetched or not written: no failure about the script becomes an error of the
\* pipeline.
C16_ScriptNeverMatters ==
    Started("findScript") =>
        LET ref == decodeStreamURLNoScript(proRCPHTML)
        IN  /\ (pc = "done" /\ ~Started("fetchManifest"))
                  => (err = ref.err /\ masterURL = ref.url)
            /\ VariantsResolved => (ref.err = ErrNil /\ masterURL = ref.url)
            /\ (ScriptFailed /\ pc \notin {"fetchScript", "saveScript", "done"})
                  => err = ErrNil

C16_Witness ==
    /\ ScriptFailed
    /\ pc = "done"
    /\ err = ErrNil
    /\ Len(ret) > 0

(***************************************************************************)
(* Concurrent resolutions.  Each caller runs decodeStreamURL on the page   *)
(* its own stage-2 fetch returned.  The callers share what the program     *)
(* shares: the package-level client, whose transport carries every         *)
(* request, and the file scripts/prorcp.js.                                *)
(***************************************************************************)
Callers == 1..MaxCallers

\* a caller about to enter decodeStreamURL with its page
Entering(page) ==
    [pc |-> "findScript", page |-> page, js |-> <<>>, saved |-> FALSE,
     url |-> <<>>, err |-> ErrNil]

InitConcurrent ==
    /\ pc = "concurrent"
    /\ err = ErrNil
    /\ plain = <<>>
    /\ BuildIdle /\ DeobIdle /\ DecryptIdle /\ StreamIdle /\ PipeIdle
    /\ res \in [Callers -> {Entering(page) : page \in ProRCPPages}]

\* what the steps of a caller leave alone
sharedIdle ==
    <<pc, err, o, embedURL, plain, deobVars, decryptVars, streamVars, pageVars,
      jsContent, errURL, stages>>

\* the script selector, in caller c
CFindScript(c) ==
    /\ res[c].pc = "findScript"
    /\ res' = [res EXCEPT ![c].pc =
                  IF Len(MarkedScripts(res[c].page)) > 0 THEN "fetchScript"
                  ELSE "extractToken"]
    /\ UNCHANGED <<sharedIdle, scriptFile, requests, inflight>>

\* fetchContent(fullURL, ...) up to client.Do, in caller c: the request goes
\* out through the one client
CFetchScriptSend(c) ==
    /\ res[c].pc = "fetchScript"
    /\ LET req == [caller |-> c, stage |-> "fetchScript",
                   url |-> CloudnestraOrigin \o MarkedScripts(res[c].page)[1],
                   referer |-> CloudnestraOrigin]
       IN  /\ requests' = Append(requests, req)
           /\ inflight' = Append(inflight, req)
    /\ res' = [res EXCEPT ![c].pc = "awaitScript"]
    /\ UNCHANGED <<sharedIdle, scriptFile>>

\* fetchContent from the return of client.Do, in caller c
CFetchScriptReceive(c) ==
    /\ res[c].pc = "awaitScript"
    /\ \E k \in 1..Len(inflight) :
          /\ inflight[k].caller = c
          /\ inflight' = SubSeq(inflight, 1, k - 1)
                          \o SubSeq(inflight, k + 1, Len(inflight))
    /\ \E r \in Responses :
          IF r.kind = "response" /\ StatusIsOK(r.status)
          THEN \E body \in ScriptBodies :
                  res' = [res EXCEPT ![c].js = body, ![c].pc = "saveScript"]
          ELSE res' = [res EXCEPT ![c].pc = "extractToken"]
    /\ UNCHANGED <<sharedIdle, scriptFile, requests>>

\* os.MkdirAll and os.WriteFile("scripts/prorcp.js", ...), in caller c
CSaveScript(c) ==
    /\ res[c].pc = "saveScript"
    /\ \E written \in BOOLEAN :
          /\ scriptFile' = IF written
                           THEN [exists |-> TRUE, content |-> res[c].js]
                           ELSE scriptFile
          /\ res' = [res EXCEPT ![c].saved = written, ![c].pc = "extractToken"]
    /\ UNCHANGED <<sharedIdle, requests, inflight>>

\* steps 2 and 3 of decodeStreamURL, in caller c
CDecode(c) ==
    /\ res[c].pc = "extractToken"
    /\ LET r == decodeStreamURLNoScript(res[c].page)
       IN  res' = [res EXCEPT ![c].url = r.url, ![c].err = r.err,
                              ![c].pc = "done"]
    /\ UNCHANGED <<sharedIdle, scriptFile, requests, inflight>>

NextConcurrent ==
    \/ \E c \in Callers : CFindScript(c)
    \/ \E c \in Callers : CFetchScriptSend(c)
    \/ \E c \in Callers : CFetchScriptReceive(c)
    \/ \E c \in Callers : CSaveScript(c)
    \/ \E c \in Callers : CDecode(c)

SpecConcurrent == InitConcurrent /\ [][NextConcurrent]_vars

\* C17: resolutions that run concurrently share no mutable state: each has its
\* own pipeline state and its own client, and the result and every artifact of
\* a resolution depend on its own request and responses alone; none reads or
\* overwrites what another wrote.
C17_NoSharedState ==
    \A c \in Callers : res[c].saved => scriptFile.content = res[c].js

====
